---------------------------- MODULE Spec2Model ----------------------------
(***************************************************************************)
(* Model of the AI-image detection backend (src/backend): the analyzer     *)
(* hierarchy (analyzers.py), the result and configuration value classes    *)
(* (models.py), the detection service (services.py), the exception         *)
(* taxonomy (exceptions.py) and the request handler (app.py).              *)
(*                                                                         *)
(* Python strings that the code inspects are sequences of one-character    *)
(* strings; messages are sequences of text fragments.  Accented letters of *)
(* the source's message literals are written without the accent.           *)
(***************************************************************************)
EXTENDS Integers, Sequences, FiniteSets, TLC

VARIABLES
    arg,                \* unit harness: the argument a function under test is applied to
    ret,                \* unit harness: what the function returned or raised
    process,            \* app.py module: "importing", "serving" or "crashed"
    detection_service,  \* app.py module global: the service object, or None
    req,                \* local state of the analyze invocation in progress
    twin,               \* paired-run harness: the same invocation made with type "standard"
    conc                \* concurrent invocations: the local state of each, what each
                        \* was given, and the credential held by the genai library

vars == <<arg, ret, process, detection_service, req, twin, conc>>

-----------------------------------------------------------------------------
(* Bounds of the model *)

\* longest model reply text given to _extract_probability in SpecExtract
MaxLen == 4

-----------------------------------------------------------------------------
(* Python strings *)

Digits == {"0", "1", "3", "5", "7"}
Whitespace == {" "}
\* characters a model reply is built from: digits, signs, the underscore that
\* int() accepts between digits, whitespace and a letter
Chars == Digits \cup Whitespace \cup {"-", "+", "_", "a"}

RECURSIVE SeqsUpTo(_, _)
SeqsUpTo(S, n) ==
    IF n = 0 THEN {<<>>}
    ELSE LET shorter == SeqsUpTo(S, n - 1)
         IN  shorter \cup {Append(s, c) : s \in {t \in shorter : Len(t) = n - 1}, c \in S}

DigitValue(c) ==
    CASE c = "0" -> 0 [] c = "1" -> 1 [] c = "2" -> 2 [] c = "3" -> 3
      [] c = "4" -> 4 [] c = "5" -> 5 [] c = "6" -> 6 [] c = "7" -> 7
      [] c = "8" -> 8 [] c = "9" -> 9

\* the value of a non-empty run of decimal digits
RECURSIVE DigitsValue(_)
DigitsValue(s) ==
    IF Len(s) = 0 THEN 0
    ELSE DigitsValue(SubSeq(s, 1, Len(s) - 1)) * 10 + DigitValue(s[Len(s)])

\* str.strip(): drop leading and trailing whitespace
RECURSIVE LStrip(_)
LStrip(s) == IF Len(s) > 0 /\ s[1] \in Whitespace THEN LStrip(Tail(s)) ELSE s

RECURSIVE RStrip(_)
RStrip(s) ==
    IF Len(s) > 0 /\ s[Len(s)] \in Whitespace
    THEN RStrip(SubSeq(s, 1, Len(s) - 1)) ELSE s

strip(s) == RStrip(LStrip(s))

\* digit (_? digit)* : the body of a decimal integer literal accepted by int()
RECURSIVE IsDigitPart(_)
IsDigitPart(s) ==
    /\ Len(s) > 0
    /\ s[1] \in Digits
    /\ \/ Len(s) = 1
       \/ IsDigitPart(Tail(s))
       \/ Len(s) > 2 /\ s[2] = "_" /\ IsDigitPart(SubSeq(s, 3, Len(s)))

RemoveUnderscores(s) == SelectSeq(s, LAMBDA c : c # "_")

\* int(text): surrounding whitespace ignored, optional sign, digits with single
\* underscores between them; anything else raises ValueError
int(text) ==
    LET t    == strip(text)
        neg  == Len(t) > 0 /\ t[1] = "-"
        body == IF Len(t) > 0 /\ t[1] \in {"-", "+"} THEN Tail(t) ELSE t
    IN  IF IsDigitPart(body)
        THEN [ok |-> TRUE,
              val |-> IF neg THEN 0 - DigitsValue(RemoveUnderscores(body))
                      ELSE DigitsValue(RemoveUnderscores(body))]
        ELSE [ok |-> FALSE, val |-> 0]

\* the longest prefix of s made of digits
RECURSIVE DigitPrefix(_)
DigitPrefix(s) ==
    IF Len(s) > 0 /\ s[1] \in Digits THEN <<s[1]>> \o DigitPrefix(Tail(s)) ELSE <<>>

\* re.findall(r'\d+', text): the maximal digit runs, left to right
RECURSIVE findall_digits(_)
findall_digits(s) ==
    IF Len(s) = 0 THEN <<>>
    ELSE IF s[1] \in Digits
         THEN LET run == DigitPrefix(s)
              IN  <<run>> \o findall_digits(SubSeq(s, Len(run) + 1, Len(s)))
         ELSE findall_digits(Tail(s))

max(a, b) == IF a >= b THEN a ELSE b
min(a, b) == IF a <= b THEN a ELSE b

-----------------------------------------------------------------------------
(* analyzers.py: BaseAnalyzer._extract_probability *)

\* faulty variant: the default of a reply without digits is 0
ExtractDefaultZero(response_text) ==
    LET whole == int(strip(response_text))
    IN  IF whole.ok THEN max(0, min(100, whole.val))
        ELSE LET numbers == findall_digits(response_text)
             IN  IF Len(numbers) > 0
                 THEN max(0, min(100, int(numbers[1]).val))
                 ELSE 0

\* faulty variant: the whole-text parse is skipped, only digit runs are scanned
ExtractDigitRunsOnly(response_text) ==
    LET numbers == findall_digits(response_text)
    IN  IF Len(numbers) > 0
        THEN max(0, min(100, int(numbers[1]).val))
        ELSE 50

_extract_probability(response_text) ==
    LET whole == int(strip(response_text))
    IN  IF whole.ok THEN max(0, min(100, whole.val))
        ELSE LET numbers == findall_digits(response_text)
             IN  IF Len(numbers) > 0
                 THEN max(0, min(100, int(numbers[1]).val))
                 ELSE 50


-----------------------------------------------------------------------------
(* Python values *)

\* None
PyNone == "<None>"
\* the result of getattr/hasattr on an attribute the object does not have
NoAttr == "<no attribute>"
\* bool(x) is False for None and for the empty string
Falsy(x) == x \in {PyNone, ""}

\* str(n) of an int, as a sequence of characters
RECURSIVE NatStr(_)
NatStr(n) ==
    LET d == <<"0", "1", "2", "3", "4", "5", "6", "7", "8", "9">>
    IN  IF n < 10 THEN <<d[n + 1]>> ELSE NatStr(n \div 10) \o <<d[(n % 10) + 1]>>

str(n) == IF n < 0 THEN <<"-">> \o NatStr(0 - n) ELSE NatStr(n)

\* a float: a ratio num/den of integers (den > 0), an infinity or NaN
Float(num, den) == [kind |-> "finite", num |-> num, den |-> den]
NaN == [kind |-> "nan", num |-> 0, den |-> 1]
PosInf == [kind |-> "inf", num |-> 1, den |-> 1]
NegInf == [kind |-> "-inf", num |-> 0 - 1, den |-> 1]

\* x < n and x > n for a float x and an int n; every comparison with NaN is False
float_lt(x, n) ==
    CASE x.kind = "finite" -> x.num < n * x.den
      [] x.kind = "-inf" -> TRUE
      [] x.kind = "inf" -> FALSE
      [] x.kind = "nan" -> FALSE

float_gt(x, n) ==
    CASE x.kind = "finite" -> x.num > n * x.den
      [] x.kind = "inf" -> TRUE
      [] x.kind = "-inf" -> FALSE
      [] x.kind = "nan" -> FALSE

\* what a call produced: a returned value or a raised exception
Return(v) == [raised |-> FALSE, value |-> v]
Raise(e) == [raised |-> TRUE, exc |-> e]

-----------------------------------------------------------------------------
(* exceptions.py *)

NoError == [class |-> "<None>"]

AIDetectionException(class, message, error_code, original_error) ==
    [class |-> class, message |-> message, error_code |-> error_code,
     original_error |-> original_error]

InvalidImageException(message) ==
    AIDetectionException("InvalidImageException", message, "INVALID_IMAGE", NoError)

NoImageProvidedException(message) ==
    AIDetectionException("NoImageProvidedException", message, "NO_IMAGE_PROVIDED", NoError)

APIKeyMissingException ==
    AIDetectionException("APIKeyMissingException",
                         <<"Chave da API do Gemini nao configurada">>,
                         "API_KEY_MISSING", NoError)

\* str(e) of an exception
exc_str(e) == e.message

AnalysisFailedException(message, original_error) ==
    AIDetectionException("AnalysisFailedException",
                         IF original_error # NoError
                         THEN message \o <<": ">> \o exc_str(original_error)
                         ELSE message,
                         "ANALYSIS_FAILED", original_error)

ModelNotAvailableException(model_name) ==
    AIDetectionException("ModelNotAvailableException",
                         <<"Modelo '", model_name, "' nao esta disponivel">>,
                         "MODEL_NOT_AVAILABLE", NoError)

\* an exception that is not an AIDetectionException (no error_code attribute)
BuiltinException(class, message) == [class |-> class, message |-> message]

AIDetectionClasses ==
    {"InvalidImageException", "NoImageProvidedException", "APIKeyMissingException",
     "AnalysisFailedException", "ModelNotAvailableException"}

exception_to_dict(e) ==
    [error |-> e.message, error_code |-> e.error_code, success |-> FALSE]

-----------------------------------------------------------------------------
(* models.py *)

ImageData(image, filename) ==
    [image |-> image, filename |-> filename,
     size |-> <<image.width, image.height>>, format |-> image.format]

width(image_data) == image_data.size[1]
height(image_data) == image_data.size[2]

_validate_probability(probability) == max(0, min(100, probability))

\* faulty variant: the bands are cut with > where the code has >=
DetermineClassificationStrict(probability) ==
    IF probability > 80 THEN "Muito provavel IA"
    ELSE IF probability > 60 THEN "Provavelmente IA"
    ELSE IF probability > 40 THEN "Incerto"
    ELSE IF probability > 20 THEN "Provavelmente real"
    ELSE "Muito provavel real"

_determine_classification(probability) ==
    IF probability >= 80 THEN "Muito provavel IA"
    ELSE IF probability >= 60 THEN "Provavelmente IA"
    ELSE IF probability >= 40 THEN "Incerto"
    ELSE IF probability >= 20 THEN "Provavelmente real"
    ELSE "Muito provavel real"

AnalysisResult(probability, analysis_text) ==
    LET p == _validate_probability(probability)
    IN  [probability |-> p, analysis_text |-> analysis_text,
         classification |-> _determine_classification(p)]

is_likely_ai(result) == result.probability >= 60

\* faulty variant: the low side is cut with < where the code has <=
ConfidenceLevelStrict(result) ==
    IF result.probability >= 80 \/ result.probability < 20 THEN "Alta"
    ELSE IF result.probability >= 60 \/ result.probability < 40 THEN "Media"
    ELSE "Baixa"

confidence_level(result) ==
    IF result.probability >= 80 \/ result.probability <= 20 THEN "Alta"
    ELSE IF result.probability >= 60 \/ result.probability <= 40 THEN "Media"
    ELSE "Baixa"

result_to_dict(result) ==
    [probability |-> result.probability,
     classification |-> result.classification,
     analysis |-> result.analysis_text,
     is_likely_ai |-> is_likely_ai(result),
     confidence_level |-> confidence_level(result),
     success |-> TRUE]

\* AIModelConfig(model_name, api_key, temperature, max_tokens): the dataclass
\* constructor followed by __post_init__
AIModelConfig(model_name, api_key, temperature, max_tokens) ==
    IF Falsy(api_key) THEN Raise(APIKeyMissingException)
    ELSE IF float_lt(temperature, 0) \/ float_gt(temperature, 1)
         THEN Raise(BuiltinException("ValueError",
                                     <<"Temperature deve estar entre 0 e 1">>))
         ELSE Return([model_name |-> model_name, api_key |-> api_key,
                      temperature |-> temperature, max_tokens |-> max_tokens])

DefaultTemperature == Float(2, 5)

-----------------------------------------------------------------------------
(* Inputs: uploads, analysis types, replies of the external model *)

\* decoded sizes around the 100-pixel limit of the detailed analysis
Dims == {50, 99, 100}

\* what the bytes of an upload are: nothing, bytes PIL cannot open, or an image
EmptyBytes == [kind |-> "empty", width |-> 0, height |-> 0, format |-> PyNone]
GarbageBytes == [kind |-> "garbage", width |-> 0, height |-> 0, format |-> PyNone]
Images == [kind : {"image"}, width : Dims, height : Dims, format : {"PNG"}]
Contents == {EmptyBytes, GarbageBytes} \cup Images

\* the image_file argument: None, or an object with a truth value, possibly a
\* filename attribute, possibly a read() method, and bytes that read() returns
NoneUpload ==
    [is_none |-> TRUE, truthy |-> FALSE, filename |-> NoAttr, has_read |-> FALSE,
     content |-> EmptyBytes]
FileObjects ==
    [is_none : {FALSE}, truthy : BOOLEAN, filename : {NoAttr, "", "img.png"},
     has_read : BOOLEAN, content : Contents]
Uploads == {NoneUpload} \cup FileObjects

\* a werkzeug FileStorage taken from request.files: it has filename and read(),
\* and its truth value is bool(filename)
FileStorages ==
    {f \in FileObjects : f.has_read /\ f.filename # NoAttr /\ f.truthy = (f.filename # "")}

\* analysis-type strings, recognised or not
ValidTypes == {"standard", "fast", "detailed"}
TypeStrings == ValidTypes \cup {"bogus", "", "FAST"}

\* an HTTP request to /api/analyze: request.files and request.form
HttpRequests ==
    [has_image : BOOLEAN, image_file : FileStorages, form_type : TypeStrings \cup {PyNone}]

\* longest reply text of the probability call in the request flow
MaxReplyLen == 2
\* longest reply text of the explanation call
MaxExplLen == 2

\* exceptions the external client raises from generate_content or .text
ExternalErrors ==
    {BuiltinException("ConnectionError", <<"network unreachable">>),
     BuiltinException("ResourceExhausted", <<"quota exceeded">>)}

ProbabilityReplies ==
    {Return(t) : t \in SeqsUpTo(Chars, MaxReplyLen)} \cup {Raise(e) : e \in ExternalErrors}

ExplanationReplies ==
    {Return(t) : t \in SeqsUpTo({" ", "a"}, MaxExplLen)} \cup {Raise(e) : e \in ExternalErrors}

-----------------------------------------------------------------------------
(* Local state of one analyze invocation *)

NoneObj == [is_none |-> TRUE]
Pending == [pending |-> TRUE]
Unbound == 0 - 1

IdleReq ==
    [pc |-> "idle", via |-> "none", image_file |-> NoneUpload, form_type |-> PyNone,
     analysis_type |-> PyNone, analyzer |-> PyNone, image_data |-> NoneObj,
     probability |-> Unbound, calls |-> <<>>, outcome |-> Pending,
     response |-> Pending]

Returned(o) == "value" \in DOMAIN o
Raised(o) == "exc" \in DOMAIN o

-----------------------------------------------------------------------------
(* app.py: the except clauses and the return of the analyze_image route *)

jsonify(status, body) == [status |-> status, body |-> body]

route_result(outcome) ==
    IF ~outcome.raised
    THEN jsonify(200, result_to_dict(outcome.value))
    ELSE IF outcome.exc.class \in AIDetectionClasses
         THEN jsonify(400, exception_to_dict(outcome.exc))
         ELSE jsonify(500, [error |-> <<"Erro ao processar imagem: ">>
                                          \o exc_str(outcome.exc),
                            success |-> FALSE])

\* the invocation ends: service.analyze_image returns or raises `outcome`; when
\* the route called it, the route turns the outcome into its response
Finish(r, outcome) ==
    [r EXCEPT !.pc = "done", !.outcome = outcome,
              !.response = IF r.via = "http" THEN route_result(outcome) ELSE Pending]

-----------------------------------------------------------------------------
(* analyzers.py *)

AnalyzerClasses == {"GeminiAIDetector", "FastAIDetector", "DetailedAIDetector"}

\* GeminiAIDetector._initialize_model, run by BaseAnalyzer.__init__: the analyzer
\* object, or ModelNotAvailableException when the client cannot be set up
_initialize_model(class, config, genai_ok) ==
    IF genai_ok THEN Return(class)
    ELSE Raise(ModelNotAvailableException(config.model_name))

\* the prompt of each class (the text itself is not inspected by the code)
_generate_prompt(class) ==
    CASE class = "GeminiAIDetector" -> <<"prompt: standard">>
      [] class = "FastAIDetector" -> <<"prompt: fast">>
      [] class = "DetailedAIDetector" -> <<"prompt: detailed">>

analysis_prompt(probability) ==
    <<"Com base na probabilidade de ">> \o str(probability)
        \o <<"% de esta imagem ter sido gerada por IA, forneca uma breve analise">>

fallback_text(probability) ==
    <<"Analise indica ">> \o str(probability)
        \o <<"% de probabilidade de geracao por IA.">>

\* FastAIDetector._generate_detailed_analysis: no outbound call
fast_analysis_text(probability) ==
    IF probability >= 70
    THEN <<"Analise rapida detectou ">> \o str(probability)
             \o <<"% de probabilidade de ser IA. Caracteristicas tipicas de geracao artificial identificadas.">>
    ELSE IF probability >= 30
         THEN <<"Analise inconclusiva com ">> \o str(probability)
                  \o <<"% de probabilidade. Caracteristicas mistas detectadas.">>
         ELSE <<"Analise rapida indica ">> \o str(probability)
                  \o <<"% de probabilidade de IA. Caracteristicas predominantemente naturais.">>

\* self._model.generate_content([prompt, image]) is issued: the log of outbound
\* calls grows by one call whose result is awaited
generate_content(r, kind, prompt) ==
    Append(r.calls, [kind |-> kind, prompt |-> prompt, image |-> r.image_data.image,
                     result |-> Pending])

\* the awaited call came back: the log keeps whether it returned or what it raised
came_back(r, reply) ==
    [r EXCEPT !.calls[Len(r.calls)].result =
                  IF reply.raised THEN reply ELSE [raised |-> FALSE]]

\* GeminiAIDetector._generate_detailed_analysis, after its outbound call came back
_generate_detailed_analysis(probability, reply) ==
    IF reply.raised THEN fallback_text(probability) ELSE strip(reply.value)

\* GeminiAIDetector.analyze up to its first outbound call
GeminiAIDetector_analyze(r) ==
    [r EXCEPT !.pc = "prob_call",
              !.calls = generate_content(r, "probability", _generate_prompt(r.analyzer))]

\* faulty variant: the size check rejects only images small in both dimensions
DetailedAnalyzeBothSmall(r) ==
    IF width(r.image_data) < 100 /\ height(r.image_data) < 100
    THEN Finish(r, Raise(AnalysisFailedException(
             <<"Imagem muito pequena para analise detalhada. Minimo 100x100 pixels.">>,
             NoError)))
    ELSE GeminiAIDetector_analyze(r)

\* DetailedAIDetector.analyze: the size check, then the parent's analyze
DetailedAIDetector_analyze(r) ==
    IF width(r.image_data) < 100 \/ height(r.image_data) < 100
    THEN Finish(r, Raise(AnalysisFailedException(
             <<"Imagem muito pequena para analise detalhada. Minimo 100x100 pixels.">>,
             NoError)))
    ELSE GeminiAIDetector_analyze(r)

\* analyzer.analyze(image_data), by the class of the analyzer
analyze(r) ==
    IF r.analyzer = "DetailedAIDetector" THEN DetailedAIDetector_analyze(r)
    ELSE GeminiAIDetector_analyze(r)

\* faulty variant: a failed probability call is absorbed like a failed explanation call,
\* with the default probability
OnProbabilityReplyAbsorbs(r0, reply) ==
    LET r == came_back(r0, reply)
        probability == IF reply.raised THEN 50 ELSE _extract_probability(reply.value)
    IN  IF r.analyzer = "FastAIDetector"
        THEN Finish([r EXCEPT !.probability = probability],
                    Return(AnalysisResult(probability, fast_analysis_text(probability))))
        ELSE [r EXCEPT !.pc = "expl_call",
                       !.probability = probability,
                       !.calls = generate_content(r, "explanation",
                                                  analysis_prompt(probability))]

\* faulty variant: FastAIDetector does not override _generate_detailed_analysis,
\* so the fast analysis makes the explanation call too
OnProbabilityReplyFastCalls(r0, reply) ==
    LET r == came_back(r0, reply)
    IN  IF reply.raised
        THEN Finish(r, Raise(AnalysisFailedException(
                 <<"Falha ao analisar imagem com Gemini AI">>, reply.exc)))
        ELSE LET probability == _extract_probability(reply.value)
             IN  [r EXCEPT !.pc = "expl_call",
                           !.probability = probability,
                           !.calls = generate_content(r, "explanation",
                                                      analysis_prompt(probability))]

\* GeminiAIDetector.analyze from the return of the probability call
on_probability_reply(r0, reply) ==
    LET r == came_back(r0, reply)
    IN  IF reply.raised
        THEN Finish(r, Raise(AnalysisFailedException(
                 <<"Falha ao analisar imagem com Gemini AI">>, reply.exc)))
        ELSE LET probability == _extract_probability(reply.value)
             IN  IF r.analyzer = "FastAIDetector"
                 THEN Finish([r EXCEPT !.probability = probability],
                             Return(AnalysisResult(probability,
                                                   fast_analysis_text(probability))))
                 ELSE [r EXCEPT !.pc = "expl_call",
                                !.probability = probability,
                                !.calls = generate_content(r, "explanation",
                                                           analysis_prompt(probability))]

\* faulty variant: _generate_detailed_analysis has no try/except, so a failed
\* explanation call reaches the except clause of analyze
OnExplanationReplyPropagates(r0, reply) ==
    LET r == came_back(r0, reply)
    IN  IF reply.raised
        THEN Finish(r, Raise(AnalysisFailedException(
                 <<"Falha ao analisar imagem com Gemini AI">>, reply.exc)))
        ELSE Finish(r, Return(AnalysisResult(r.probability, strip(reply.value))))

\* GeminiAIDetector.analyze from the return of the explanation call
on_explanation_reply(r0, reply) ==
    LET r == came_back(r0, reply)
    IN  Finish(r, Return(AnalysisResult(r.probability,
                             _generate_detailed_analysis(r.probability, reply))))

-----------------------------------------------------------------------------
(* services.py *)

DefaultModelName == "gemini-2.5-flash"

\* AIDetectionService.__init__ with _validate_and_configure
AIDetectionService(api_key, env_key, model_name, genai_ok) ==
    LET key == IF Falsy(api_key) THEN env_key ELSE api_key
    IN  IF Falsy(key) THEN Raise(APIKeyMissingException)
        ELSE LET config == AIModelConfig(model_name, key, DefaultTemperature, PyNone)
             IN  IF config.raised THEN config
                 ELSE LET analyzer == _initialize_model("GeminiAIDetector",
                                                        config.value, genai_ok)
                      IN  IF analyzer.raised THEN analyzer
                          ELSE Return([api_key |-> key, model_name |-> model_name,
                                       config |-> config.value,
                                       analyzer |-> analyzer.value])

is_configured(service) == service.config # NoneObj /\ service.analyzer # PyNone

\* faulty variant: the OSError of Image.open is not caught
CreateImageDataUncaught(image_file) ==
    IF image_file.is_none \/ ~image_file.truthy \/ ~image_file.has_read
    THEN Raise(NoImageProvidedException(<<"Nenhuma imagem foi enviada">>))
    ELSE IF image_file.content.kind = "empty"
         THEN Raise(InvalidImageException(<<"Arquivo de imagem vazio">>))
         ELSE IF image_file.content.kind = "garbage"
              THEN Raise(BuiltinException("UnidentifiedImageError",
                                          <<"cannot identify image file">>))
              ELSE Return(ImageData(image_file.content,
                                    IF image_file.filename = NoAttr THEN "unknown"
                                    ELSE image_file.filename))

_create_image_data(image_file) ==
    IF image_file.is_none \/ ~image_file.truthy \/ ~image_file.has_read
    THEN Raise(NoImageProvidedException(<<"Nenhuma imagem foi enviada">>))
    ELSE IF image_file.content.kind = "empty"
         THEN Raise(InvalidImageException(<<"Arquivo de imagem vazio">>))
         ELSE IF image_file.content.kind = "garbage"
              THEN Raise(InvalidImageException(
                       <<"Nao foi possivel abrir a imagem: ", "cannot identify image file">>))
              ELSE Return(ImageData(image_file.content,
                                    IF image_file.filename = NoAttr THEN "unknown"
                                    ELSE image_file.filename))

\* faulty variant: an unrecognised type is refused
SelectAnalyzerStrict(service, analysis_type, genai_ok) ==
    IF analysis_type = "fast"
    THEN _initialize_model("FastAIDetector", service.config, genai_ok)
    ELSE IF analysis_type = "detailed"
         THEN _initialize_model("DetailedAIDetector", service.config, genai_ok)
         ELSE IF analysis_type = "standard"
              THEN _initialize_model("GeminiAIDetector", service.config, genai_ok)
              ELSE Raise(AnalysisFailedException(<<"Tipo de analise desconhecido">>,
                                                 NoError))

_select_analyzer(service, analysis_type, genai_ok) ==
    IF analysis_type = "fast"
    THEN _initialize_model("FastAIDetector", service.config, genai_ok)
    ELSE IF analysis_type = "detailed"
         THEN _initialize_model("DetailedAIDetector", service.config, genai_ok)
         ELSE _initialize_model("GeminiAIDetector", service.config, genai_ok)

\* AIDetectionService.analyze_image up to the first outbound call of the analyzer
analyze_image(service, r0, image_file, analysis_type, genai_ok) ==
    LET r == [r0 EXCEPT !.image_file = image_file, !.analysis_type = analysis_type]
    IN  IF image_file.is_none \/ ~image_file.truthy
        THEN Finish(r, Raise(NoImageProvidedException(<<"Nenhuma imagem foi enviada">>)))
        ELSE IF image_file.filename # NoAttr /\ Falsy(image_file.filename)
             THEN Finish(r, Raise(NoImageProvidedException(<<"Nenhuma imagem selecionada">>)))
             ELSE LET image_data == _create_image_data(image_file)
                  IN  IF image_data.raised THEN Finish(r, image_data)
                      ELSE LET analyzer == _select_analyzer(service, analysis_type, genai_ok)
                           IN  IF analyzer.raised
                               THEN Finish([r EXCEPT !.image_data = image_data.value],
                                           analyzer)
                               ELSE analyze([r EXCEPT !.image_data = image_data.value,
                                                     !.analyzer = analyzer.value])

\* faulty variant: analyze_image keeps the analyzer it selected in self.__analyzer
SelfAfterKeepsAnalyzer(service, r) ==
    IF r.analyzer # PyNone THEN [service EXCEPT !.analyzer = r.analyzer] ELSE service

\* self after analyze_image has run as far as r: analyze_image, _create_image_data
\* and _select_analyzer read self.__config and assign no attribute of self
self_after_analyze_image(service, r) == service

\* genai.configure(api_key=self._config.api_key), run by every analyzer that
\* _select_analyzer constructs: the credential the genai library then holds
genai_configure(config) == config.api_key

-----------------------------------------------------------------------------
(* app.py *)

\* the analyze_image route up to the first outbound call of the analyzer
analyze_image_route(service, request, genai_ok) ==
    LET r == [IdleReq EXCEPT !.via = "http", !.form_type = request.form_type]
    IN  IF service = NoneObj \/ ~is_configured(service)
        THEN [r EXCEPT !.pc = "done",
                       !.response = jsonify(503,
                           [error |-> <<"Servico de deteccao nao esta configurado">>,
                            success |-> FALSE])]
        ELSE IF ~request.has_image
             THEN [r EXCEPT !.pc = "done",
                            !.response = jsonify(400,
                                [error |-> <<"Nenhuma imagem foi enviada">>,
                                 success |-> FALSE])]
             ELSE LET given == IF request.form_type = PyNone THEN "standard"
                               ELSE request.form_type
                      analysis_type == IF given \notin ValidTypes THEN "standard"
                                       ELSE given
                  IN  analyze_image(service, r, request.image_file, analysis_type,
                                    genai_ok)

\* str(self.__analyzer): BaseAnalyzer.__str__
analyzer_str(class, config) == <<class, "(model=", config.model_name, ")">>

\* AIDetectionService.health_check
health_check(service) ==
    [status |-> "ok",
     service |-> "AI Detection Service",
     model |-> service.model_name,
     api_configured |-> ~Falsy(service.api_key),
     analyzer |-> analyzer_str(service.analyzer, service.config)]

\* the health route
health(service) ==
    IF service # NoneObj /\ is_configured(service)
    THEN jsonify(200, health_check(service))
    ELSE jsonify(503, [status |-> "error",
                       message |-> <<"Servico nao configurado corretamente">>,
                       api_configured |-> FALSE])

-----------------------------------------------------------------------------
(* Concurrent invocations of analyze_image on one service: their local state *)

\* the threads that call analyze_image
ConcIds == {"t1", "t2"}

\* what one invocation was given: its upload, its type, whether the genai set-up
\* of its analyzer worked, the replies that have come back to it so far, and
\* whether the other thread was waiting for the model when it started
NoInputs ==
    [image_file |-> NoneUpload, analysis_type |-> PyNone, genai_ok |-> FALSE,
     probability_reply |-> Pending, explanation_reply |-> Pending,
     overlapped |-> FALSE]

IdleInvocation == [r |-> IdleReq, given |-> NoInputs]

\* no concurrent invocations are modelled
NoConc == [genai_api_key |-> PyNone, before |-> NoneObj,
           invocations |-> [id \in ConcIds |-> IdleInvocation]]

-----------------------------------------------------------------------------
(* The application: module import, then analyze invocations one at a time *)

\* values of the GEMINI_API_KEY environment variable: unset, empty, set
EnvKeys == {PyNone, "", "AIza-key"}

Init ==
    /\ arg = NoneObj
    /\ ret = Pending
    /\ process = "importing"
    /\ detection_service = NoneObj
    /\ req = IdleReq
    /\ twin = IdleReq
    /\ conc = NoConc

\* app.py import: detection_service = AIDetectionService(), with only
\* APIKeyMissingException caught
Startup ==
    /\ process = "importing"
    /\ \E env_key \in EnvKeys, genai_ok \in BOOLEAN :
         LET service == AIDetectionService(PyNone, env_key, DefaultModelName, genai_ok)
         IN  IF ~service.raised
             THEN process' = "serving" /\ detection_service' = service.value
             ELSE IF service.exc.class = "APIKeyMissingException"
                  THEN process' = "serving" /\ detection_service' = NoneObj
                  ELSE process' = "crashed" /\ UNCHANGED detection_service
    /\ UNCHANGED <<arg, ret, req, twin, conc>>

\* POST /api/analyze arrives and runs until it responds or waits for the model
HttpAnalyze ==
    /\ process = "serving"
    /\ req.pc = "idle"
    /\ \E request \in HttpRequests, genai_ok \in BOOLEAN :
         req' = analyze_image_route(detection_service, request, genai_ok)
    /\ UNCHANGED <<arg, ret, process, detection_service, twin, conc>>

\* service.analyze_image called directly on the constructed service
DirectAnalyze ==
    /\ process = "serving"
    /\ detection_service # NoneObj
    /\ req.pc = "idle"
    /\ \E image_file \in Uploads, analysis_type \in TypeStrings, genai_ok \in BOOLEAN :
         req' = analyze_image(detection_service, [IdleReq EXCEPT !.via = "direct"],
                              image_file, analysis_type, genai_ok)
    /\ UNCHANGED <<arg, ret, process, detection_service, twin, conc>>

\* the probability call returns a reply or raises
ProbabilityReply ==
    /\ req.pc = "prob_call"
    /\ \E reply \in ProbabilityReplies : req' = on_probability_reply(req, reply)
    /\ UNCHANGED <<arg, ret, process, detection_service, twin, conc>>

\* the explanation call returns a reply or raises
ExplanationReply ==
    /\ req.pc = "expl_call"
    /\ \E reply \in ExplanationReplies : req' = on_explanation_reply(req, reply)
    /\ UNCHANGED <<arg, ret, process, detection_service, twin, conc>>

\* the caller has its response or exception; the invocation's locals are gone
Complete ==
    /\ req.pc = "done"
    /\ req' = IdleReq
    /\ UNCHANGED <<arg, ret, process, detection_service, twin, conc>>

Next ==
    \/ Startup
    \/ HttpAnalyze
    \/ DirectAnalyze
    \/ ProbabilityReply
    \/ ExplanationReply
    \/ Complete

Spec == Init /\ [][Next]_vars

-----------------------------------------------------------------------------
(* Paired runs: one invocation with an unrecognised type beside the same      *)
(* invocation with "standard", given the same upload and the same replies     *)

UnrecognisedTypes == TypeStrings \ ValidTypes

TwinDirectAnalyze ==
    /\ process = "serving"
    /\ detection_service # NoneObj
    /\ req.pc = "idle"
    /\ \E image_file \in Uploads, analysis_type \in UnrecognisedTypes, genai_ok \in BOOLEAN :
         /\ req' = analyze_image(detection_service, [IdleReq EXCEPT !.via = "direct"],
                                 image_file, analysis_type, genai_ok)
         /\ twin' = analyze_image(detection_service, [IdleReq EXCEPT !.via = "direct"],
                                  image_file, "standard", genai_ok)
    /\ UNCHANGED <<arg, ret, process, detection_service, conc>>

TwinHttpAnalyze ==
    /\ process = "serving"
    /\ req.pc = "idle"
    /\ \E request \in HttpRequests, genai_ok \in BOOLEAN :
         /\ request.form_type \in UnrecognisedTypes
         /\ req' = analyze_image_route(detection_service, request, genai_ok)
         /\ twin' = analyze_image_route(detection_service,
                                        [request EXCEPT !.form_type = "standard"],
                                        genai_ok)
    /\ UNCHANGED <<arg, ret, process, detection_service, conc>>

TwinProbabilityReply ==
    /\ req.pc = "prob_call"
    /\ \E reply \in ProbabilityReplies :
         /\ req' = on_probability_reply(req, reply)
         /\ twin' = on_probability_reply(twin, reply)
    /\ UNCHANGED <<arg, ret, process, detection_service, conc>>

TwinExplanationReply ==
    /\ req.pc = "expl_call"
    /\ \E reply \in ExplanationReplies :
         /\ req' = on_explanation_reply(req, reply)
         /\ twin' = on_explanation_reply(twin, reply)
    /\ UNCHANGED <<arg, ret, process, detection_service, conc>>

TwinComplete ==
    /\ req.pc = "done"
    /\ req' = IdleReq
    /\ twin' = IdleReq
    /\ UNCHANGED <<arg, ret, process, detection_service, conc>>

NextTwin ==
    \/ Startup
    \/ TwinDirectAnalyze
    \/ TwinHttpAnalyze
    \/ TwinProbabilityReply
    \/ TwinExplanationReply
    \/ TwinComplete

SpecTwin == Init /\ [][NextTwin]_vars

-----------------------------------------------------------------------------
(* Concurrent invocations: two threads call analyze_image on the service the   *)
(* import built, and their steps interleave at the outbound calls              *)

\* uploads of the concurrent invocations: None, undecodable bytes, square images
ConcUploads ==
    {NoneUpload} \cup
    {f \in FileStorages : /\ f.truthy
                          /\ f.content.kind \in {"garbage", "image"}
                          /\ f.content.width = f.content.height}

ConcProbabilityReplies ==
    {Return(<<"7", "0">>), Return(<<>>),
     Raise(BuiltinException("ConnectionError", <<"network unreachable">>))}

ConcExplanationReplies ==
    {Return(<<"a">>),
     Raise(BuiltinException("ResourceExhausted", <<"quota exceeded">>))}

\* the service as the import of app.py built it with GEMINI_API_KEY set
BuiltService == AIDetectionService(PyNone, "AIza-key", DefaultModelName, TRUE).value

InFlight(inv) == inv.r.pc \in {"prob_call", "expl_call"}

InitConc ==
    /\ arg = NoneObj
    /\ ret = Pending
    /\ process = "serving"
    /\ detection_service = BuiltService
    /\ req = IdleReq
    /\ twin = IdleReq
    /\ conc = [genai_api_key |-> genai_configure(BuiltService.config),
               before |-> [service |-> BuiltService,
                           is_configured |-> is_configured(BuiltService),
                           health_check |-> health_check(BuiltService)],
               invocations |-> [id \in ConcIds |-> IdleInvocation]]

\* thread id calls service.analyze_image and runs until it returns, raises or
\* waits for the model
ConcAnalyze(id) ==
    /\ process = "serving"
    /\ conc.invocations[id].r.pc = "idle"
    /\ \E image_file \in ConcUploads, analysis_type \in ValidTypes, genai_ok \in BOOLEAN :
         LET r == analyze_image(detection_service, [IdleReq EXCEPT !.via = "direct"],
                                image_file, analysis_type, genai_ok)
             given == [NoInputs EXCEPT
                          !.image_file = image_file,
                          !.analysis_type = analysis_type,
                          !.genai_ok = genai_ok,
                          !.overlapped = \E other \in ConcIds \ {id} :
                                             InFlight(conc.invocations[other])]
         IN  /\ conc' = [conc EXCEPT
                            !.invocations[id] = [r |-> r, given |-> given],
                            !.genai_api_key =
                                IF r.image_data # NoneObj
                                THEN genai_configure(detection_service.config)
                                ELSE @]
             /\ detection_service' = self_after_analyze_image(detection_service, r)
    /\ UNCHANGED <<arg, ret, process, req, twin>>

\* the probability call of thread id returns a reply or raises
ConcProbabilityReply(id) ==
    /\ conc.invocations[id].r.pc = "prob_call"
    /\ \E reply \in ConcProbabilityReplies :
         LET r == on_probability_reply(conc.invocations[id].r, reply)
         IN  /\ conc' = [conc EXCEPT !.invocations[id].r = r,
                                     !.invocations[id].given.probability_reply = reply]
             /\ detection_service' = self_after_analyze_image(detection_service, r)
    /\ UNCHANGED <<arg, ret, process, req, twin>>

\* the explanation call of thread id returns a reply or raises
ConcExplanationReply(id) ==
    /\ conc.invocations[id].r.pc = "expl_call"
    /\ \E reply \in ConcExplanationReplies :
         LET r == on_explanation_reply(conc.invocations[id].r, reply)
         IN  /\ conc' = [conc EXCEPT !.invocations[id].r = r,
                                     !.invocations[id].given.explanation_reply = reply]
             /\ detection_service' = self_after_analyze_image(detection_service, r)
    /\ UNCHANGED <<arg, ret, process, req, twin>>

\* the caller of thread id has its result or exception
ConcComplete(id) ==
    /\ conc.invocations[id].r.pc = "done"
    /\ conc' = [conc EXCEPT !.invocations[id] = IdleInvocation]
    /\ UNCHANGED <<arg, ret, process, detection_service, req, twin>>

NextConc ==
    \/ \E id \in ConcIds : ConcAnalyze(id)
    \/ \E id \in ConcIds : ConcProbabilityReply(id)
    \/ \E id \in ConcIds : ConcExplanationReply(id)
    \/ \E id \in ConcIds : ConcComplete(id)

SpecConc == InitConc /\ [][NextConc]_vars

-----------------------------------------------------------------------------
(* Unit harness: a function applied to inputs drawn from bounded sets *)

\* _extract_probability on every text of at most MaxLen characters
InitExtract ==
    /\ arg \in SeqsUpTo(Chars, MaxLen)
    /\ ret = Pending
    /\ process = "importing"
    /\ detection_service = NoneObj
    /\ req = IdleReq
    /\ twin = IdleReq
    /\ conc = NoConc

ApplyExtract ==
    /\ ret = Pending
    /\ ret' = Return(_extract_probability(arg))
    /\ UNCHANGED <<arg, process, detection_service, req, twin, conc>>

NextExtract == ApplyExtract

SpecExtract == InitExtract /\ [][NextExtract]_vars

\* AnalysisResult(probability, analysis_text) and to_dict(), on probabilities
\* from MaxOver below 0 to MaxOver above 100
MaxOver == 30

InitResult ==
    /\ arg \in [probability : (0 - MaxOver)..(100 + MaxOver),
                analysis_text : {<<>>, <<"a">>}]
    /\ ret = Pending
    /\ process = "importing"
    /\ detection_service = NoneObj
    /\ req = IdleReq
    /\ twin = IdleReq
    /\ conc = NoConc

ApplyAnalysisResult ==
    /\ ret = Pending
    /\ ret' = [object |-> AnalysisResult(arg.probability, arg.analysis_text)]
    /\ UNCHANGED <<arg, process, detection_service, req, twin, conc>>

ApplyToDict ==
    /\ "object" \in DOMAIN ret
    /\ ret' = [dict |-> result_to_dict(ret.object)]
    /\ UNCHANGED <<arg, process, detection_service, req, twin, conc>>

NextResult == ApplyAnalysisResult \/ ApplyToDict

SpecResult == InitResult /\ [][NextResult]_vars

\* AIModelConfig(...) on credentials and temperatures num/den around [0, 1]
MaxNum == 8
MaxDen == 4

Temperatures ==
    {Float(n, d) : n \in (0 - MaxNum)..MaxNum, d \in 1..MaxDen} \cup {NaN, PosInf, NegInf}

InitConfig ==
    /\ arg \in [model_name : {DefaultModelName}, api_key : {PyNone, "", "AIza-key"},
                temperature : Temperatures, max_tokens : {PyNone}]
    /\ ret = Pending
    /\ process = "importing"
    /\ detection_service = NoneObj
    /\ req = IdleReq
    /\ twin = IdleReq
    /\ conc = NoConc

ApplyAIModelConfig ==
    /\ ret = Pending
    /\ ret' = AIModelConfig(arg.model_name, arg.api_key, arg.temperature, arg.max_tokens)
    /\ UNCHANGED <<arg, process, detection_service, req, twin, conc>>

NextConfig == ApplyAIModelConfig

SpecConfig == InitConfig /\ [][NextConfig]_vars

-----------------------------------------------------------------------------
(* Properties *)

Clamp(n) == IF n < 0 THEN 0 ELSE IF n > 100 THEN 100 ELSE n

\* the invocation made an outbound call of this kind as its i-th call
Called(r, i, kind) == Len(r.calls) >= i /\ r.calls[i].kind = kind
CallFailed(r, i) == Len(r.calls) >= i /\ "exc" \in DOMAIN r.calls[i].result
CallSucceeded(r, i) ==
    Len(r.calls) >= i /\ r.calls[i].result = [raised |-> FALSE]

\* C1: when the probability call succeeded with probability p and the
\* explanation call then raised, analyze returns a result (it raises nothing)
\* whose probability is p and whose analysis text is the fallback template
\* with p written into it; through the route the response is the 200 result.
C1_ExplanationFailureAbsorbed ==
    (CallSucceeded(req, 1) /\ Called(req, 2, "explanation") /\ CallFailed(req, 2))
    => /\ req.pc = "done"
       /\ Returned(req.outcome)
       /\ req.outcome.value.probability = req.probability
       /\ req.outcome.value.analysis_text =
              <<"Analise indica ">> \o str(req.probability)
                  \o <<"% de probabilidade de geracao por IA.">>
       /\ req.probability = 37 =>
              req.outcome.value.analysis_text =
                  <<"Analise indica ", "3", "7", "% de probabilidade de geracao por IA.">>
       /\ req.via = "http" =>
              /\ req.response.status = 200
              /\ req.response.body.probability = req.probability
              /\ req.response.body.success

C1_Witness ==
    /\ req.pc = "done"
    /\ req.analyzer = "DetailedAIDetector"
    /\ CallSucceeded(req, 1)
    /\ CallFailed(req, 2)
    /\ req.probability = 37
    /\ Returned(req.outcome)
    /\ req.outcome.value.analysis_text[2] = "3"

\* C2: when the first outbound call (the probability call) raised, analyze
\* raises AnalysisFailedException with code ANALYSIS_FAILED carrying the raised
\* exception as its original error, for each of the three analyzer classes; the
\* invocation is over with that one call made and no result.
C2_ProbabilityFailureFails ==
    (Called(req, 1, "probability") /\ CallFailed(req, 1))
    => /\ req.analyzer \in AnalyzerClasses
       /\ req.pc = "done"
       /\ Len(req.calls) = 1
       /\ Raised(req.outcome)
       /\ ~Returned(req.outcome)
       /\ req.outcome.exc.class = "AnalysisFailedException"
       /\ req.outcome.exc.error_code = "ANALYSIS_FAILED"
       /\ req.outcome.exc.original_error = req.calls[1].result.exc
       /\ req.outcome.exc.original_error \in ExternalErrors
       /\ req.probability = Unbound

C2_Witness ==
    /\ req.pc = "done"
    /\ req.analyzer = "GeminiAIDetector"
    /\ CallFailed(req, 1)
    /\ Raised(req.outcome)
    /\ req.outcome.exc.original_error.class = "ConnectionError"

\* C3: with the type "detailed" the analyzer is a DetailedAIDetector; when the
\* image is narrower or lower than 100 pixels its analyze raises
\* AnalysisFailedException and the invocation made no outbound call; when both
\* sides are at least 100 the invocation goes on to the probability call of the
\* shared flow.
C3_DetailedSizeGuard ==
    (req.analysis_type = "detailed" /\ req.analyzer # PyNone)
    => /\ req.analyzer = "DetailedAIDetector"
       /\ (width(req.image_data) < 100 \/ height(req.image_data) < 100)
              => /\ req.pc = "done"
                 /\ req.calls = <<>>
                 /\ Raised(req.outcome)
                 /\ req.outcome.exc.class = "AnalysisFailedException"
                 /\ req.outcome.exc.error_code = "ANALYSIS_FAILED"
       /\ (width(req.image_data) >= 100 /\ height(req.image_data) >= 100)
              => /\ Called(req, 1, "probability")
                 /\ req.calls[1].prompt = <<"prompt: detailed">>
                 /\ req.pc \in {"prob_call", "expl_call", "done"}

C3_Witness ==
    /\ req.pc = "done"
    /\ req.analyzer = "DetailedAIDetector"
    /\ width(req.image_data) = 100
    /\ height(req.image_data) = 99
    /\ req.calls = <<>>
    /\ Raised(req.outcome)
    /\ req.outcome.exc.class = "AnalysisFailedException"

\* the text is a run of decimal digits from position i to position j
IsDigitRun(s, i, j) ==
    /\ 1 <= i /\ i <= j /\ j <= Len(s)
    /\ \A k \in i..j : s[k] \in Digits

\* the first maximal digit run of the text, scanning left to right
IsFirstMaximalRun(s, i, j) ==
    /\ IsDigitRun(s, i, j)
    /\ \A k \in 1..(i - 1) : s[k] \notin Digits
    /\ j = Len(s) \/ s[j + 1] \notin Digits

HasDigit(s) == \E k \in 1..Len(s) : s[k] \in Digits

IsMinusDigits(s) == Len(s) >= 2 /\ s[1] = "-" /\ IsDigitRun(s, 2, Len(s))

\* C5 as stated: for a minus sign followed by a digit run the sign is ignored
\* and the result is the value of the digit run clamped to 0..100.
C5_SignIgnored ==
    (Returned(ret) /\ IsMinusDigits(arg))
    => ret.value = Clamp(DigitsValue(Tail(arg)))

\* C5 amended: a minus sign followed by a digit run parses as a whole as a
\* non-positive integer, and the result is that integer clamped, which is 0;
\* the sign is passed over only when the whole text does not parse, as in a
\* minus sign, a digit run and a letter.
C5_NegativeClampsToZero ==
    Returned(ret)
    => /\ IsMinusDigits(arg) => ret.value = 0
       /\ arg = <<"-", "5">> => ret.value = 0
       /\ (Len(arg) >= 3 /\ IsMinusDigits(SubSeq(arg, 1, Len(arg) - 1))
             /\ arg[Len(arg)] = "a")
              => ret.value = Clamp(DigitsValue(SubSeq(arg, 2, Len(arg) - 1)))

C5_Witness ==
    /\ Returned(ret)
    /\ arg = <<"-", "5">>
    /\ ret.value = 0

\* C6: the stored probability is the constructor's argument clamped to 0..100,
\* clamping it again changes nothing, and the classification is decided by the
\* stored probability: one of five bands cut at 80, 60, 40 and 20.
C6_ClampAndBands ==
    "object" \in DOMAIN ret
    => LET p == ret.object.probability
           c == ret.object.classification
       IN  /\ p = Clamp(arg.probability)
           /\ p \in 0..100
           /\ _validate_probability(p) = p
           /\ (c = "Muito provavel IA") <=> (p >= 80)
           /\ (c = "Provavelmente IA") <=> (60 <= p /\ p < 80)
           /\ (c = "Incerto") <=> (40 <= p /\ p < 60)
           /\ (c = "Provavelmente real") <=> (20 <= p /\ p < 40)
           /\ (c = "Muito provavel real") <=> (p < 20)
           /\ ret.object.analysis_text = arg.analysis_text

C6_Witness ==
    /\ "object" \in DOMAIN ret
    /\ arg.probability = 80
    /\ ret.object.probability = 80
    /\ ret.object.classification = "Muito provavel IA"

\* C7: in the serialized result is_likely_ai is true exactly when p >= 60, and
\* confidence_level is high for p >= 80 or p <= 20, otherwise medium for
\* p >= 60 or p <= 40, otherwise low, so low exactly for 40 < p < 60; p = 20 is
\* high in the "likely real" band and p = 40 is medium in the "uncertain" band.
C7_SerializedFlags ==
    "dict" \in DOMAIN ret
    => LET d == ret.dict
           p == d.probability
       IN  /\ p = Clamp(arg.probability)
           /\ d.is_likely_ai <=> (p >= 60)
           /\ (d.confidence_level = "Alta") <=> (p >= 80 \/ p <= 20)
           /\ (d.confidence_level = "Media")
                  <=> ((20 < p /\ p <= 40) \/ (60 <= p /\ p < 80))
           /\ (d.confidence_level = "Baixa") <=> (40 < p /\ p < 60)
           /\ p = 20 => (d.confidence_level = "Alta"
                           /\ d.classification = "Provavelmente real")
           /\ p = 40 => (d.confidence_level = "Media"
                           /\ d.classification = "Incerto")
           /\ d.success
           /\ d.analysis = arg.analysis_text
           /\ DOMAIN d = {"probability", "classification", "analysis",
                           "is_likely_ai", "confidence_level", "success"}

C7_Witness ==
    /\ "dict" \in DOMAIN ret
    /\ ret.dict.probability = 20
    /\ ret.dict.confidence_level = "Alta"
    /\ ~ret.dict.is_likely_ai

\* analyze_image of the service was entered by this invocation
ServiceEntered(r) == r.pc # "idle" /\ r.analysis_type # PyNone

\* the upload is absent: None, or an object whose truth value is False
Absent(f) == f.is_none \/ ~f.truthy

\* nothing past the validation ran: no analyzer, no outbound call, no result
RejectedWith(r, class, code) ==
    /\ r.pc = "done"
    /\ Raised(r.outcome)
    /\ ~Returned(r.outcome)
    /\ r.outcome.exc.class = class
    /\ r.outcome.exc.error_code = code
    /\ r.analyzer = PyNone
    /\ r.calls = <<>>
    /\ r.image_data = NoneObj
    /\ r.probability = Unbound

\* C8: analyze_image raises NoImageProvidedException for an absent upload and
\* for an upload with an empty filename, and InvalidImageException for a
\* readable upload whose bytes are empty or not an image; in each case no
\* analyzer was selected, no outbound call was made and no result exists.
C8_BadUploadsRejected ==
    ServiceEntered(req)
    => LET f == req.image_file
       IN  /\ (Absent(f) \/ f.filename = "")
                  => RejectedWith(req, "NoImageProvidedException", "NO_IMAGE_PROVIDED")
           /\ (~Absent(f) /\ f.filename # "" /\ f.has_read
                 /\ f.content.kind \in {"empty", "garbage"})
                  => RejectedWith(req, "InvalidImageException", "INVALID_IMAGE")
           /\ (req.via = "http" /\ (f.filename = "" \/ f.content.kind # "image"))
                  => (req.response.status = 400 /\ ~req.response.body.success)

C8_Witness ==
    /\ req.pc = "done"
    /\ req.via = "http"
    /\ req.image_file.filename = "img.png"
    /\ req.image_file.content.kind = "garbage"
    /\ Raised(req.outcome)
    /\ req.outcome.exc.class = "InvalidImageException"
    /\ req.calls = <<>>

\* C9: an invocation with an unrecognised type string and the same invocation
\* with "standard" (same upload, same replies of the model) pass through the
\* same states: the same analyzer class, the same outbound calls, the same
\* result or exception, the same response; the type itself raises nothing.
C9_UnrecognisedIsStandard ==
    req.pc # "idle"
    => /\ [req EXCEPT !.analysis_type = twin.analysis_type,
                       !.form_type = twin.form_type] = twin
       /\ req.analyzer \in {PyNone, "GeminiAIDetector"}
       /\ (req.via = "direct")
              => (req.analysis_type \in UnrecognisedTypes
                   /\ twin.analysis_type = "standard")
       /\ (req.via = "http")
              => (req.form_type \in UnrecognisedTypes /\ twin.form_type = "standard")
       /\ Len(req.calls) >= 1 => req.calls[1].prompt = <<"prompt: standard">>

C9_Witness ==
    /\ req.pc = "done"
    /\ req.via = "direct"
    /\ req.analysis_type = "bogus"
    /\ twin.analysis_type = "standard"
    /\ Returned(req.outcome)
    /\ twin.outcome = req.outcome
    /\ Len(req.calls) = 2

\* the temperature is a number in [0, 1]
InUnitInterval(x) == x.kind = "finite" /\ 0 <= x.num /\ x.num <= x.den

\* C10 as stated: construction raises APIKeyMissingException for an empty
\* credential whatever the temperature, raises the ValueError of an invalid
\* configuration for a credential with a temperature outside [0, 1], and
\* succeeds for a credential with a temperature in [0, 1], 0 and 1 included.
C10_ConfigValidated ==
    ("raised" \in DOMAIN ret)
    => /\ Falsy(arg.api_key)
              => (ret.raised /\ ret.exc.class = "APIKeyMissingException"
                   /\ ret.exc.error_code = "API_KEY_MISSING")
       /\ (~Falsy(arg.api_key) /\ ~InUnitInterval(arg.temperature))
              => (ret.raised /\ ret.exc.class = "ValueError")
       /\ (~Falsy(arg.api_key) /\ InUnitInterval(arg.temperature))
              => (~ret.raised /\ ret.value.temperature = arg.temperature
                   /\ ret.value.api_key = arg.api_key)

\* what the code does hold to: C10 for every temperature that is a number or
\* an infinity; a NaN temperature is accepted
C10_ConfigValidatedButNaN ==
    ("raised" \in DOMAIN ret /\ arg.temperature # NaN) => C10_ConfigValidated

C10_NaNAccepted ==
    ("raised" \in DOMAIN ret /\ ~Falsy(arg.api_key) /\ arg.temperature = NaN)
    => (~ret.raised /\ ret.value.temperature = NaN)

\* the application answers as an unconfigured one: the health route and every
\* analyze request get the 503 response
ReportsUnconfigured(service) ==
    /\ health(service).status = 503
    /\ ~health(service).body.api_configured
    /\ \A request \in HttpRequests, genai_ok \in BOOLEAN :
           LET r == analyze_image_route(service, request, genai_ok)
           IN  r.pc = "done" /\ r.response.status = 503 /\ r.calls = <<>>

\* the service object was built whole: config and default analyzer both exist
BuiltWhole(service) ==
    /\ is_configured(service)
    /\ service.config # NoneObj
    /\ service.analyzer # PyNone
    /\ health(service).status = 200

\* C11 as stated: once the import is over the process serves, whatever failed
\* while the service was built; it then either has no service and answers as
\* unconfigured, or has a service built whole, and is_configured is true
\* exactly of a service with both its config and its default analyzer.
C11_FailureLeavesUnconfigured ==
    process # "importing"
    => /\ process = "serving"
       /\ detection_service = NoneObj => ReportsUnconfigured(detection_service)
       /\ detection_service # NoneObj => BuiltWhole(detection_service)

\* what the code does hold to: C11 whenever the import did not die, which is
\* when the credential was missing or nothing failed
C11_UnlessImportDied ==
    process = "serving" => C11_FailureLeavesUnconfigured

\* C12 as stated: every analyze request that fails is answered by the route,
\* and the answer is an error mapping with a message (error), a
\* machine-readable kind (error_code) and success = false.
C12_EveryFailureHasKind ==
    (req.via = "http" /\ req.pc = "done")
    => /\ req.response # Pending
       /\ req.response.status # 200
              => /\ "error" \in DOMAIN req.response.body
                 /\ "error_code" \in DOMAIN req.response.body
                 /\ "success" \in DOMAIN req.response.body
                 /\ ~req.response.body.success

\* what the code does hold to: every failed request is answered with a message
\* and success = false; the kind is there exactly when the service raised one of
\* its own exceptions, and is missing from the answers the route writes itself
C12_KindOnlyFromService ==
    (req.via = "http" /\ req.pc = "done")
    => /\ req.response # Pending
       /\ req.response.status # 200
              => /\ "error" \in DOMAIN req.response.body
                 /\ ~req.response.body.success
                 /\ ("error_code" \in DOMAIN req.response.body) <=> Raised(req.outcome)
                 /\ Raised(req.outcome)
                        => /\ req.response.status = 400
                           /\ req.response.body.error_code = req.outcome.exc.error_code
                           /\ req.response.body.error = req.outcome.exc.message

\* the i-th outbound call of the invocation is still awaited
CallAwaited(r, i) == Len(r.calls) >= i /\ r.calls[i].result = Pending

\* C13 as stated: an invocation that returned a result, whatever the analyzer
\* class, made two outbound calls, the probability call and then the
\* explanation call; the explanation call is issued only after the probability
\* call returned; no invocation makes more than two calls.
C13_TwoCallsPerResult ==
    /\ Len(req.calls) <= 2
    /\ Len(req.calls) >= 2 => CallSucceeded(req, 1)
    /\ (req.pc = "done" /\ Returned(req.outcome))
           => /\ req.analyzer \in AnalyzerClasses
              /\ Len(req.calls) = 2
              /\ req.calls[1].kind = "probability"
              /\ req.calls[2].kind = "explanation"

\* C13 amended: with GeminiAIDetector and DetailedAIDetector a returned result
\* follows two outbound calls, probability then explanation; with
\* FastAIDetector it follows the probability call alone, the text being built
\* from the probability; the calls are made one at a time, the explanation call
\* only after the probability call returned, and never more than two.
C13_CallsInOrder ==
    /\ Len(req.calls) <= 2
    /\ Len(req.calls) >= 1 => req.calls[1].kind = "probability"
    /\ Len(req.calls) >= 2
           => /\ req.calls[2].kind = "explanation"
              /\ CallSucceeded(req, 1)
              /\ req.analyzer \in {"GeminiAIDetector", "DetailedAIDetector"}
    /\ req.pc = "prob_call" <=> CallAwaited(req, 1)
    /\ req.pc = "expl_call" <=> CallAwaited(req, 2)
    /\ (req.pc = "done" /\ Returned(req.outcome))
           => /\ req.analyzer \in AnalyzerClasses
              /\ CallSucceeded(req, 1)
              /\ req.analyzer \in {"GeminiAIDetector", "DetailedAIDetector"}
                     => (Len(req.calls) = 2 /\ ~CallAwaited(req, 2))
              /\ req.analyzer = "FastAIDetector"
                     => /\ Len(req.calls) = 1
                        /\ req.outcome.value.probability = req.probability
                        /\ req.outcome.value.analysis_text[2] = str(req.probability)[1]

C13_Witness ==
    /\ req.pc = "done"
    /\ req.analysis_type = "fast"
    /\ req.analyzer = "FastAIDetector"
    /\ Returned(req.outcome)
    /\ Len(req.calls) = 1
    /\ CallSucceeded(req, 1)

\* the invocation that was given these inputs, run by itself on the service as
\* it was built: analyze_image, then each reply that has come back
alone(service, given) ==
    LET started == analyze_image(service, [IdleReq EXCEPT !.via = "direct"],
                                 given.image_file, given.analysis_type, given.genai_ok)
        replied == IF given.probability_reply = Pending THEN started
                   ELSE on_probability_reply(started, given.probability_reply)
    IN  IF given.explanation_reply = Pending THEN replied
        ELSE on_explanation_reply(replied, given.explanation_reply)

\* C14: under any interleaving of concurrent analyze_image invocations, failed
\* or not, the service object (credential, model name, config, default
\* analyzer) is what the import built, is_configured and health_check return
\* what they returned before, the genai library holds the service's credential,
\* and each invocation's local state and outcome are those of the same
\* invocation run alone with its own upload, type and replies.
C14_ServiceUntouched ==
    /\ detection_service = conc.before.service
    /\ is_configured(detection_service) = conc.before.is_configured
    /\ health_check(detection_service) = conc.before.health_check
    /\ conc.genai_api_key = conc.before.service.api_key
    /\ \A id \in ConcIds :
          LET inv == conc.invocations[id]
          IN  IF inv.r.pc = "idle" THEN inv = IdleInvocation
              ELSE inv.r = alone(conc.before.service, inv.given)

\* one thread started while the other waited for the model and has returned a
\* result; the other has failed
C14_Witness ==
    /\ conc.invocations["t1"].r.pc = "done"
    /\ conc.invocations["t1"].given.overlapped
    /\ Returned(conc.invocations["t1"].r.outcome)
    /\ conc.invocations["t1"].r.analyzer = "FastAIDetector"
    /\ conc.invocations["t2"].r.pc = "done"
    /\ Raised(conc.invocations["t2"].r.outcome)
    /\ Len(conc.invocations["t2"].r.calls) = 1

=============================================================================
